---- MODULE Spec2Model ----
(***************************************************************************)
(* The image generator: the routing function generateImage with its two    *)
(* upstream paths (services/geminiService) and the ImageGenerator          *)
(* component with its history list (components/ImageGenerator).            *)
(*                                                                         *)
(* Text is a sequence of tokens: a message, a prompt or a data URL is the  *)
(* concatenation of its tokens, so startsWith, includes, split and the     *)
(* template literals of the source act on tokens; '' is <<>>.  An optional *)
(* value is a sequence of length 0 (undefined / null) or 1.  A block or    *)
(* finish reason is one token, "" when absent or empty.                    *)
(***************************************************************************)
EXTENDS Integers, Sequences, FiniteSets, TLC

\* ------------------------------------------------------------------ text

\* String.prototype.toLowerCase on the tokens of upstream error messages.
ToLowerCase(t) ==
    CASE t = "API key not valid" -> "api key not valid"
      [] t = "PERMISSION_DENIED" -> "permission_denied"
      [] t = "Requested entity was not found" -> "requested entity was not found"
      [] t = "Quota" -> "quota"
      [] t = "UNAVAILABLE" -> "unavailable"
      [] OTHER -> t

\* error.message.toLowerCase()
LowerCaseMessage(m) == [i \in 1..Len(m) |-> ToLowerCase(m[i])]

\* String.prototype.includes
Includes(m, needle) == \E i \in 1..Len(m) : m[i] = needle

\* String.prototype.startsWith
StartsWith(m, prefix) == Len(m) >= 1 /\ m[1] = prefix

\* String.prototype.replace(token, ''): drops the first occurrence only.
RECURSIVE ReplaceFirst(_, _)
ReplaceFirst(s, token) ==
    IF s = <<>> THEN <<>>
    ELSE IF Head(s) = token THEN Tail(s)
    ELSE <<Head(s)>> \o ReplaceFirst(Tail(s), token)

\* Array.prototype.join(', ') over texts.
RECURSIVE Join(_)
Join(texts) ==
    IF texts = <<>> THEN <<>>
    ELSE IF Len(texts) = 1 THEN texts[1]
    ELSE texts[1] \o <<", ">> \o Join(Tail(texts))

\* safetyRatings?.map(r => `${r.category.replace('HARM_CATEGORY_', '')}: ${r.probability}`).join(', ')
\* An absent list gives undefined, an empty list gives '': both are falsy,
\* and both are the empty text here.
SafetyRatingsText(optRatings) ==
    IF optRatings = <<>> THEN <<>>
    ELSE LET rs == optRatings[1]
         IN Join([i \in 1..Len(rs) |->
                    ReplaceFirst(rs[i].category, "HARM_CATEGORY_")
                      \o <<": ", rs[i].probability>>])

\* `data:${mimeType};base64,${bytes}`
DataUrl(mimeType, bytes) == <<"data", ":">> \o mimeType \o <<";", "base64", ",">> \o bytes

\* String.prototype.split(sep): the pieces between the occurrences of sep.
RECURSIVE Split(_, _)
Split(s, sep) ==
    IF s = <<>> THEN << <<>> >>
    ELSE LET rest == Split(Tail(s), sep)
         IN IF Head(s) = sep THEN << <<>> >> \o rest
            ELSE << <<Head(s)>> \o rest[1] >> \o Tail(rest)

\* a[i] with i counted from 0: an optional value, undefined past the end.
At(a, i) == IF i + 1 \in 1..Len(a) THEN <<a[i + 1]>> ELSE <<>>

\* String.prototype.trim: whitespace tokens dropped at both ends.
RECURSIVE TrimStart(_)
TrimStart(s) == IF s # <<>> /\ Head(s) = " " THEN TrimStart(Tail(s)) ELSE s

RECURSIVE TrimEnd(_)
TrimEnd(s) ==
    IF s # <<>> /\ s[Len(s)] = " " THEN TrimEnd(SubSeq(s, 1, Len(s) - 1)) ELSE s

Trim(s) == TrimEnd(TrimStart(s))

\* ------------------------------------------------------ routing results

\* dispatched: the events the call passed to window.dispatchEvent, in order.
Returned(url) == [threw |-> FALSE, url |-> url, message |-> <<>>, dispatched |-> <<>>]

Thrown(message) == [threw |-> TRUE, url |-> <<>>, message |-> message, dispatched |-> <<>>]

\* throw new Error(message) inside the try block: an Error instance.
NewError(message) == [isError |-> TRUE, message |-> <<message>>]

BlockedDetails(text) ==
    IF text # <<>>
    THEN <<" Details: ">> \o text \o <<". Please modify your prompt and try again.">>
    ELSE <<>>

PromptBlockedMessage(reason, optRatings) ==
    <<"Your prompt was blocked", " before generation for safety reasons (", reason, ").">>
      \o BlockedDetails(SafetyRatingsText(optRatings))

\* Mutant: a safety stop reported with the prompt-blocked message.
ContentBlockedAsPrompt(optRatings) == PromptBlockedMessage("SAFETY", optRatings)

ContentBlockedMessage(optRatings) ==
    <<"The generated content was blocked", " for safety reasons.">>
      \o BlockedDetails(SafetyRatingsText(optRatings))

\* ------------------------------------------------- the catch blocks

\* The try block's outcome: a returned data URL or a raised value.
TryReturn(url) == [raised |-> FALSE, url |-> url, error |-> NewError(<<>>)]

TryRaise(error) == [raised |-> TRUE, url |-> <<>>, error |-> error]

\* Mutant: the "403" test left out.
IndicatesInvalidKeyWords(lower) ==
    \/ Includes(lower, "api key not valid")
    \/ Includes(lower, "permission_denied")
    \/ Includes(lower, "requested entity was not found")

\* lowerCaseMessage.includes("api key not valid") || ... ("403") || ...
IndicatesInvalidKey(lower) ==
    \/ Includes(lower, "api key not valid")
    \/ Includes(lower, "403")
    \/ Includes(lower, "permission_denied")
    \/ Includes(lower, "requested entity was not found")

\* Mutant: the "429" test left out.
IndicatesQuotaWord(lower) == Includes(lower, "quota")

IndicatesQuota(lower) == Includes(lower, "429") \/ Includes(lower, "quota")

IndicatesUnavailable(lower) ==
    Includes(lower, "500") \/ Includes(lower, "503") \/ Includes(lower, "unavailable")

UnexpectedMessage(raw) == <<"An unexpected error occurred. Details: ">> \o raw

\* The tail of both catch blocks: the user-friendly message of an error that
\* is not one of the function's own, and the 'apiKeyError' event.
UserFriendly(error) ==
    IF error.isError
    THEN LET lower == LowerCaseMessage(error.message[1])
         IN IF IndicatesInvalidKey(lower)
            THEN [Thrown(<<"API Key is invalid or not authorized.",
                           " Please ensure your key is correct and has the required permissions.">>)
                    EXCEPT !.dispatched = <<"apiKeyError">>]
            ELSE IF IndicatesQuota(lower)
            THEN Thrown(<<"You have exceeded your API usage quota.",
                          " Please check your account status and billing.">>)
            ELSE IF IndicatesUnavailable(lower)
            THEN Thrown(<<"The image generation service is temporarily unavailable.",
                          " Please try again in a few moments.">>)
            ELSE Thrown(UnexpectedMessage(error.message[1]))
    ELSE IF error.message # <<>> /\ error.message[1] # <<>>
    THEN Thrown(UnexpectedMessage(error.message[1]))
    ELSE Thrown(<<"Failed to generate image due to a network or server error.">>)

\* The errors generateTextToImage rethrows as they are.
TextOwnError(error) ==
    /\ error.isError
    /\ \/ StartsWith(error.message[1], "Your prompt was blocked")
       \/ StartsWith(error.message[1], "The generated content was blocked")
       \/ StartsWith(error.message[1], "Image generation failed")
       \/ StartsWith(error.message[1], "No image data was returned")
       \/ StartsWith(error.message[1], "The API response did not contain image data")

\* Mutant: "No image data was returned" missing from the rethrown errors.
ReferenceOwnErrorShort(error) ==
    /\ error.isError
    /\ \/ StartsWith(error.message[1], "Your prompt was blocked")
       \/ StartsWith(error.message[1], "The generated content was blocked")
       \/ StartsWith(error.message[1], "Image generation was stopped")

\* The errors generateWithReferenceImage rethrows as they are.
ReferenceOwnError(error) ==
    /\ error.isError
    /\ \/ StartsWith(error.message[1], "Your prompt was blocked")
       \/ StartsWith(error.message[1], "The generated content was blocked")
       \/ StartsWith(error.message[1], "Image generation was stopped")
       \/ StartsWith(error.message[1], "No image data was returned")

\* ------------------------------------------- generateTextToImage

\* a || b || c over strings
FirstTruthy(a, b, c) == IF a # <<>> THEN a ELSE IF b # <<>> THEN b ELSE c

\* Mutant: the block reason looked at only after the first generated image.
TextTryImageFirst(config, r) ==
    IF r.generatedImages = <<>>
    THEN TryRaise(NewError(<<"No image data was returned",
             " from the API. The prompt may be too complex or the model refused the request.">>))
    ELSE IF r.generatedImages[1].finishReason \notin {"", "SUCCESS"}
    THEN TryRaise(NewError(<<"Image generation failed", ". Reason: ",
                             r.generatedImages[1].finishReason, ".">>))
    ELSE IF r.blockReason # ""
    THEN TryRaise(NewError(PromptBlockedMessage(r.blockReason, r.feedbackRatings)))
    ELSE IF r.generatedImages[1].image = <<>>
    THEN TryRaise(NewError(<<"The API response did not contain image data",
                             ", despite reporting success.">>))
    ELSE TryReturn(DataUrl(<<"image/jpeg">>, r.generatedImages[1].image[1].imageBytes))

\* The try block after ai.models.generateImages answered with response r.
TextTry(config, r) ==
    IF r.blockReason # ""
    THEN TryRaise(NewError(PromptBlockedMessage(r.blockReason, r.feedbackRatings)))
    ELSE IF r.generatedImages = <<>>
    THEN TryRaise(NewError(<<"No image data was returned",
             " from the API. The prompt may be too complex or the model refused the request.">>))
    ELSE LET generatedImage == r.generatedImages[1]
         IN IF generatedImage.finishReason # "" /\ generatedImage.finishReason # "SUCCESS"
            THEN IF generatedImage.finishReason = "SAFETY"
                 THEN TryRaise(NewError(ContentBlockedMessage(generatedImage.safetyRatings)))
                 ELSE TryRaise(NewError(<<"Image generation failed", ". Reason: ",
                                          generatedImage.finishReason, ".">>))
            ELSE IF generatedImage.image = <<>> \/ generatedImage.image[1].imageBytes = <<>>
            THEN TryRaise(NewError(<<"The API response did not contain image data",
                                     ", despite reporting success.">>))
            ELSE TryReturn(DataUrl(FirstTruthy(generatedImage.image[1].mimeType,
                                               config.outputMimeType, <<"image/jpeg">>),
                                   generatedImage.image[1].imageBytes))

\* The arguments of ai.models.generateImages.
TextRequest(config) ==
    [model |-> "imagen-4.0-generate-001",
     prompt |-> config.prompt,
     numberOfImages |-> config.numberOfImages,
     outputMimeType |-> config.outputMimeType,
     aspectRatio |-> config.aspectRatio]

generateTextToImage(config, up) ==
    LET t == IF up.kind = "throw" THEN TryRaise(up.error) ELSE TextTry(config, up.response)
    IN IF ~t.raised THEN Returned(t.url)
       ELSE IF TextOwnError(t.error) THEN Thrown(t.error.message[1])
       ELSE UserFriendly(t.error)

\* --------------------------------------- generateWithReferenceImage

\* for (const part of candidate.content.parts) if (part.inlineData) return ...
RECURSIVE FirstInlineData(_)
FirstInlineData(parts) ==
    IF parts = <<>> THEN <<>>
    ELSE IF Head(parts).inlineData # <<>> THEN Head(parts).inlineData
    ELSE FirstInlineData(Tail(parts))

\* `${x}` of an optional string
Template(opt) == IF opt = <<>> THEN <<"undefined">> ELSE opt[1]

\* The try block after ai.models.generateContent answered with response r.
ReferenceTry(config, r) ==
    IF r.blockReason # ""
    THEN TryRaise(NewError(PromptBlockedMessage(r.blockReason, r.feedbackRatings)))
    ELSE IF r.candidates = <<>>
    THEN TryRaise(NewError(<<"Image generation was stopped", ". Reason: ",
                             "UNKNOWN_REASON", ".">>))
    ELSE LET candidate == r.candidates[1]
         IN IF candidate.finishReason # "" /\ candidate.finishReason # "STOP"
            THEN IF candidate.finishReason = "SAFETY"
                 THEN TryRaise(NewError(ContentBlockedMessage(candidate.safetyRatings)))
                 ELSE TryRaise(NewError(<<"Image generation was stopped", ". Reason: ",
                                          candidate.finishReason, ".">>))
            ELSE LET inline == IF candidate.parts = <<>> THEN <<>>
                               ELSE FirstInlineData(candidate.parts[1])
                 IN IF inline # <<>>
                    THEN TryReturn(DataUrl(FirstTruthy(inline[1].mimeType, <<"image/jpeg">>,
                                                       <<"image/jpeg">>),
                                           Template(inline[1].data)))
                    ELSE TryRaise(NewError(<<"No image data was returned",
                             " from the API. This can happen if the prompt is too complex or the model is unable to generate an image for your request.">>))

\* The arguments of ai.models.generateContent.
ReferenceRequest(config) ==
    [model |-> "gemini-2.5-flash-image",
     parts |-> (IF config.referenceImage # <<>>
                THEN <<[inlineData |-> <<[data |-> config.referenceImage[1].data,
                                          mimeType |-> config.referenceImage[1].mimeType]>>]>>
                ELSE <<>>)
               \o <<[text |-> config.prompt]>>]

generateWithReferenceImage(config, up) ==
    LET t == IF up.kind = "throw" THEN TryRaise(up.error) ELSE ReferenceTry(config, up.response)
    IN IF ~t.raised THEN Returned(t.url)
       ELSE IF ReferenceOwnError(t.error) THEN Thrown(t.error.message[1])
       ELSE UserFriendly(t.error)

\* ------------------------------------------------------ generateImage

\* Mutant: the branch taken on the reference image's data, not its presence.
UsesReferenceData(config) ==
    config.referenceImage # <<>> /\ config.referenceImage[1].data # <<>>

\* if (config.referenceImage)
UsesReference(config) == config.referenceImage # <<>>

\* The function the call is routed to.
Route(config) ==
    IF UsesReference(config) THEN "generateWithReferenceImage" ELSE "generateTextToImage"

\* The routed call when the upstream answers it with up: the outcome, with
\* the function invoked and the upstream request it made.
generateImage(config, up) ==
    IF Route(config) = "generateWithReferenceImage"
    THEN [called |-> "generateWithReferenceImage", request |-> ReferenceRequest(config),
          outcome |-> generateWithReferenceImage(config, up)]
    ELSE [called |-> "generateTextToImage", request |-> TextRequest(config),
          outcome |-> generateTextToImage(config, up)]

\* ------------------------------------------------ the history list

\* The entries slice(0, 19) keeps behind a new one.
HistoryKept == 19

\* Mutant: the slice left out.
RecordHistoryUncut(prev, newHistoryItem) ==
    LET Differs(item) == item.imageUrl # newHistoryItem.imageUrl
    IN <<newHistoryItem>> \o SelectSeq(prev, Differs)

\* Mutant: the filter left out.
RecordHistoryUnfiltered(prev, newHistoryItem) ==
    <<newHistoryItem>>
      \o SubSeq(prev, 1, IF Len(prev) < HistoryKept THEN Len(prev) ELSE HistoryKept)

\* Mutant: the list cut before it is filtered.
RecordHistorySliceFirst(prev, newHistoryItem) ==
    LET Differs(item) == item.imageUrl # newHistoryItem.imageUrl
    IN <<newHistoryItem>>
         \o SelectSeq(SubSeq(prev, 1, IF Len(prev) < HistoryKept THEN Len(prev)
                                      ELSE HistoryKept), Differs)

\* [newHistoryItem, ...prev.filter(item => item.imageUrl !== imageUrl).slice(0, 19)]
RecordHistory(prev, newHistoryItem) ==
    LET Differs(item) == item.imageUrl # newHistoryItem.imageUrl
        others == SelectSeq(prev, Differs)
    IN <<newHistoryItem>>
         \o SubSeq(others, 1, IF Len(others) < HistoryKept THEN Len(others) ELSE HistoryKept)

\* prev.filter((_, index) => index !== indexToDelete), index counted from 0
RECURSIVE FilterIndexFrom(_, _, _)
FilterIndexFrom(prev, index, indexToDelete) ==
    IF prev = <<>> THEN <<>>
    ELSE (IF index # indexToDelete THEN <<Head(prev)>> ELSE <<>>)
           \o FilterIndexFrom(Tail(prev), index + 1, indexToDelete)

\* Mutant: the index counted from 1.
DeleteHistoryItemFromOne(prev, indexToDelete) == FilterIndexFrom(prev, 1, indexToDelete)

DeleteHistoryItem(prev, indexToDelete) == FilterIndexFrom(prev, 0, indexToDelete)

\* -------------------------------------------------- local storage
\* The text under a key is abstracted to what JSON.parse does with it:
\* whether it throws (malformed), whether the value is an array, and the
\* array's elements.  A JSON object is a record of the properties written;
\* a JavaScript value is [isArray, list, json], list holding the entries of
\* an array and json naming any other value.

\* Mutant: the referenceImageUrl property never written.
StringifyItemBare(item) ==
    [imageUrl |-> item.imageUrl, prompt |-> item.prompt,
     aspectRatio |-> item.aspectRatio, imageStyle |-> item.imageStyle]

\* JSON.stringify of a HistoryItem: a property whose value is undefined is
\* left out.
StringifyItem(item) ==
    IF item.referenceImageUrl = <<>>
    THEN [imageUrl |-> item.imageUrl, prompt |-> item.prompt,
          aspectRatio |-> item.aspectRatio, imageStyle |-> item.imageStyle]
    ELSE [imageUrl |-> item.imageUrl, prompt |-> item.prompt,
          aspectRatio |-> item.aspectRatio, imageStyle |-> item.imageStyle,
          referenceImageUrl |-> item.referenceImageUrl[1]]

\* JSON.parse of an object, read as a HistoryItem: a property that was not
\* written reads as undefined.
ParseItem(object) ==
    [imageUrl |-> object.imageUrl, prompt |-> object.prompt,
     aspectRatio |-> object.aspectRatio, imageStyle |-> object.imageStyle,
     referenceImageUrl |-> IF "referenceImageUrl" \in DOMAIN object
                           THEN <<object.referenceImageUrl>> ELSE <<>>]

ArrayValue(list) == [isArray |-> TRUE, list |-> list, json |-> "array"]

\* JSON.parse(text) of a text it accepts
JSONParse(text) ==
    IF text.isArray
    THEN ArrayValue([i \in 1..Len(text.elements) |-> ParseItem(text.elements[i])])
    ELSE [isArray |-> FALSE, list |-> <<>>, json |-> text.text]

\* The initialiser of the history state, given localStorage.getItem('history')
\* (absent: <<>>): savedHistory ? JSON.parse(savedHistory) : [], and [] when
\* JSON.parse throws.
InitialHistory(savedHistory) ==
    IF savedHistory = <<>> \/ savedHistory[1].text = "" THEN ArrayValue(<<>>)
    ELSE IF savedHistory[1].malformed THEN ArrayValue(<<>>)
    ELSE JSONParse(savedHistory[1])

\* localStorage.getItem('aspectRatio') || '1:1'
InitialAspectRatio(saved) == IF saved = <<>> \/ saved[1] = "" THEN "1:1" ELSE saved[1]

\* localStorage.getItem('imageStyle') || 'default'
InitialImageStyle(saved) == IF saved = <<>> \/ saved[1] = "" THEN "default" ELSE saved[1]

\* --------------------------------------------- the reference image

\* const [meta, base64Data] = url.split(','); meta.split(':')[1].split(';')[0]
\* (handleFileChange and handleViewHistoryImage)
ReferenceFromUrl(url) ==
    LET pieces == Split(url, ",")
        meta == pieces[1]
        afterColon == At(Split(meta, ":"), 1)
    IN [url |-> url,
        data |-> At(pieces, 1),
        mimeType |-> IF afterColon = <<>> THEN <<>> ELSE Split(afterColon[1], ";")[1]]

\* ------------------------------------------------------------ state

VARIABLES
    prompt,             \* useState('')
    generatedImageUrl,  \* optional data URL
    isLoading,
    error,              \* optional message
    aspectRatio,
    imageStyle,
    history,            \* HistoryItem[], newest first
    referenceImage,     \* optional {url, data, mimeType}
    pending,            \* the generateImage calls awaiting the upstream's answer
    calls,              \* generateImage calls made so far
    deletes,            \* handleDeleteHistoryItem runs so far
    last,               \* the handler that ran last, with what it was given
    storage,            \* localStorage 'history': optional text
    routed,             \* one generateImage call on its own (function-level runs)
    mounting            \* the state initialisers on their own (function-level runs)

vars == <<prompt, generatedImageUrl, isLoading, error, aspectRatio, imageStyle,
          history, referenceImage, pending, calls, deletes, last, storage, routed,
          mounting>>

form == <<prompt, aspectRatio, imageStyle, referenceImage>>

\* ------------------------------------------------------------ bounds

\* generateImage calls one run of the component makes
MaxCalls == 1

\* generateImage calls one run over a long saved history makes
MaxHistoryCalls == 2

\* history entries one run deletes
MaxDeletes == 1

\* tokens of an upstream error message
MaxMessageLen == 2

\* ----------------------------------------------------------- inputs

AspectRatios == {"1:1", "3:4", "4:3", "9:16", "16:9"}

ImageStyles == {"default", "photorealistic", "cartoon", "abstract", "impressionistic",
                "minimalist", "cyberpunk"}

\* What the user types, picks and uploads.
TypedPrompts == {<<" ">>, <<"a blue bird", " ">>}

PickedAspectRatios == {"1:1", "16:9"}

PickedStyles == {"default", "cartoon"}

UploadedFiles == {DataUrl(<<"image/png">>, <<"UkVG">>)}

SafetyRatingLists ==
    {<<>>,
     << <<>> >>,
     << <<[category |-> <<"HARM_CATEGORY_", "HATE_SPEECH">>, probability |-> "HIGH"]>> >>,
     << <<[category |-> <<"HARM_CATEGORY_", "HARASSMENT">>, probability |-> "LOW"],
          [category |-> <<"DANGEROUS">>, probability |-> "MEDIUM"]>> >>}

BlockReasons == {"", "SAFETY", "OTHER"}

FinishReasons == {"", "SUCCESS", "STOP", "SAFETY", "MAX_TOKENS"}

ImageBytes == {<<"QUJD">>, <<"REVG">>}

\* generatedImages[i] of a generateImages response
GeneratedImages ==
    [finishReason : FinishReasons,
     safetyRatings : {<<>>, << <<[category |-> <<"HARM_CATEGORY_", "HATE_SPEECH">>,
                                  probability |-> "HIGH"]>> >>},
     image : {<<>>}
             \cup {<<[imageBytes |-> b, mimeType |-> m]>> :
                     b \in {<<>>} \cup ImageBytes, m \in {<<>>, <<"image/png">>}}]

\* What ai.models.generateImages answers.
TextResponses ==
    [blockReason : BlockReasons,
     feedbackRatings : SafetyRatingLists,
     generatedImages : {<<>>} \cup {<<g>> : g \in GeneratedImages}]

TextPart == [inlineData |-> <<>>]

InlinePart(data, mimeType) == [inlineData |-> <<[data |-> data, mimeType |-> mimeType]>>]

\* candidate.content?.parts
PartLists ==
    {<<>>, << <<>> >>, << <<TextPart>> >>}
      \cup {<< <<InlinePart(<<b>>, m)>> >> : b \in ImageBytes, m \in {<<>>, <<"image/png">>}}
      \cup {<< <<TextPart, InlinePart(<<b>>, <<"image/png">>),
                 InlinePart(<<<<"R0hJ">>>>, <<"image/webp">>)>> >> : b \in ImageBytes}
      \cup {<< <<InlinePart(<<>>, <<"image/png">>)>> >>}

\* candidates[i] of a generateContent response
Candidates ==
    [finishReason : FinishReasons,
     safetyRatings : {<<>>, << <<[category |-> <<"HARM_CATEGORY_", "HATE_SPEECH">>,
                                  probability |-> "HIGH"]>> >>},
     parts : PartLists]

\* What ai.models.generateContent answers.
ReferenceResponses ==
    [blockReason : BlockReasons,
     feedbackRatings : SafetyRatingLists,
     candidates : {<<>>} \cup {<<c>> : c \in Candidates}]

MessageTokens ==
    {"429", "403", "500", "Quota", "UNAVAILABLE", "API key not valid", "fetch failed",
     "No image data was returned", "Image generation failed",
     "Image generation was stopped"}

RECURSIVE TextsUpTo(_, _)
TextsUpTo(tokens, n) ==
    IF n = 0 THEN {<<>>}
    ELSE LET shorter == TextsUpTo(tokens, n - 1)
         IN shorter \cup {<<t>> \o m : t \in tokens, m \in {x \in shorter : Len(x) = n - 1}}

\* What either upstream call rejects with.
ThrownValues ==
    {[isError |-> TRUE, message |-> <<m>>] : m \in TextsUpTo(MessageTokens, MaxMessageLen)}
      \cup {[isError |-> FALSE, message |-> <<>>],
            [isError |-> FALSE, message |-> << <<>> >>],
            [isError |-> FALSE, message |-> << <<"429">> >>],
            [isError |-> FALSE, message |-> << <<"403">> >>]}

Answer(response) == [kind |-> "response", response |-> response]

Reject(e) == [kind |-> "throw", error |-> e]

\* Every outcome of the upstream call the named function makes.
UpstreamOutcomes(called) ==
    {Reject(e) : e \in ThrownValues}
      \cup {Answer(r) : r \in (IF called = "generateTextToImage"
                               THEN TextResponses ELSE ReferenceResponses)}

\* The upstream outcomes the component runs are checked with: for each
\* function, a new image, an image whose data URL a history entry may
\* already hold, a refusal by the upstream and a rejected call.
ObservedOutcomes(called) ==
    IF called = "generateTextToImage"
    THEN {Answer([blockReason |-> "", feedbackRatings |-> <<>>,
                  generatedImages |-> <<[finishReason |-> "", safetyRatings |-> <<>>,
                      image |-> <<[imageBytes |-> b, mimeType |-> <<"image/png">>]>>]>>]) :
             b \in {<<"QUJD">>, <<"H", "2">>}}
           \cup {Answer([blockReason |-> "OTHER", feedbackRatings |-> <<>>,
                         generatedImages |-> <<>>]),
                 Reject([isError |-> TRUE, message |-> << <<"429">> >>])}
    ELSE {Answer([blockReason |-> "", feedbackRatings |-> <<>>,
                  candidates |-> <<[finishReason |-> "STOP", safetyRatings |-> <<>>,
                      parts |-> << <<InlinePart(<<b>>, <<"image/png">>)>> >>]>>]) :
             b \in {<<"QUJD">>, <<"H", "2">>}}
           \cup {Answer([blockReason |-> "", feedbackRatings |-> <<>>, candidates |-> <<>>]),
                 Reject([isError |-> TRUE, message |-> << <<"403">> >>])}

\* The configurations generateImage is called with on its own.
RoutedConfigs ==
    [prompt : {<<"a red fox">>, <<"a red fox", ", in a ", "cartoon", " style">>},
     numberOfImages : {1, 4},
     outputMimeType : {<<>>, <<"image/jpeg">>},
     aspectRatio : {"1:1", "9:16", "16:9"},
     referenceImage : {<<>>,
                       <<[data |-> <<>>, mimeType |-> <<>>]>>,
                       <<[data |-> << <<"UkVG">> >>, mimeType |-> <<"image/png">>]>>}]

\* A history a previous session left behind: n entries, each its own image.
StoredItem(i) ==
    [imageUrl |-> DataUrl(<<"image/png">>, <<"H", ToString(i)>>),
     prompt |-> <<"a red fox">>,
     aspectRatio |-> IF i % 2 = 0 THEN "16:9" ELSE "1:1",
     imageStyle |-> IF i % 2 = 0 THEN "cartoon" ELSE "default",
     referenceImageUrl |-> IF i % 2 = 0 THEN <<DataUrl(<<"image/png">>, <<"UkVG">>)>>
                           ELSE <<>>]

StoredHistory(n) == [i \in 1..n |-> StoredItem(i)]

\* An entry whose prompt is blank: Regen submits it to the empty-prompt guard.
BlankPromptItem == [StoredItem(3) EXCEPT !.prompt = <<" ">>]

\* A text JSON.parse throws on.
Unparsable(text) == [malformed |-> TRUE, isArray |-> FALSE, elements |-> <<>>, text |-> text]

Malformed == Unparsable("[{")

\* A text JSON.parse accepts whose value is not an array.
NotAList(text) == [malformed |-> FALSE, isArray |-> FALSE, elements |-> <<>>, text |-> text]

\* JSON.stringify(history)
Serialized(list) ==
    [malformed |-> FALSE, isArray |-> TRUE,
     elements |-> [i \in 1..Len(list) |-> StringifyItem(list[i])], text |-> "array"]

\* localStorage.getItem('history') when the component mounts
SavedHistories ==
    {<<>>, <<Malformed>>, <<Serialized(StoredHistory(2))>>, <<Serialized(<<BlankPromptItem>>)>>}

\* What localStorage may hold under 'history' when the initialiser reads it:
\* nothing, the empty text, texts JSON.parse throws on, JSON values that are
\* not arrays, and lists the component wrote.
SavedHistoryTexts ==
    {<<>>}
      \cup {<<Unparsable(t)>> : t \in {"", "[{", "undefined", "[object Object]"}}
      \cup {<<NotAList(t)>> : t \in {"null", "{}", "42", "true"}}
      \cup {<<Serialized(StoredHistory(n))>> : n \in 0..3}

\* localStorage 'aspectRatio' and 'imageStyle' when the initialisers read them
SavedAspectRatios == {<<>>, <<"">>, <<"16:9">>}

SavedImageStyles == {<<>>, <<"cartoon">>}

\* Saved lists at the length the list is cut to and one entry longer.
LongSavedHistories ==
    {<<Serialized(StoredHistory(n))>> : n \in (HistoryKept + 1)..(HistoryKept + 2)}

\* ------------------------------------------------------------- Init

\* The component after its first render and the effects of that render
\* (the history effect writes the list back), mounted over a saved history
\* whose value is an array; any other value has no length and no filter
\* for the render and the handlers to use.
Mounted(savedHistory) ==
    /\ prompt = <<>>
    /\ generatedImageUrl = <<>>
    /\ isLoading = FALSE
    /\ error = <<>>
    /\ aspectRatio = InitialAspectRatio(<<>>)
    /\ imageStyle = InitialImageStyle(<<>>)
    /\ InitialHistory(savedHistory).isArray
    /\ history = InitialHistory(savedHistory).list
    /\ storage = <<Serialized(history)>>
    /\ referenceImage = <<>>
    /\ pending = <<>>
    /\ calls = 0
    /\ deletes = 0
    /\ last = [op |-> "mount"]

Init ==
    /\ \E savedHistory \in SavedHistories : Mounted(savedHistory)
    /\ routed = [stage |-> "idle"]
    /\ mounting = [stage |-> "idle"]

InitHistory ==
    /\ \E savedHistory \in LongSavedHistories : Mounted(savedHistory)
    /\ routed = [stage |-> "idle"]
    /\ mounting = [stage |-> "idle"]

InitRoute ==
    /\ Mounted(<<>>)
    /\ \E config \in RoutedConfigs : routed = [stage |-> "called", config |-> config]
    /\ mounting = [stage |-> "idle"]

\* The useState initialisers on their own, over what localStorage holds.
InitMount ==
    /\ Mounted(<<>>)
    /\ routed = [stage |-> "idle"]
    /\ \E savedHistory \in SavedHistoryTexts, savedAspectRatio \in SavedAspectRatios,
          savedImageStyle \in SavedImageStyles :
          mounting = [stage |-> "stored", savedHistory |-> savedHistory,
                      savedAspectRatio |-> savedAspectRatio,
                      savedImageStyle |-> savedImageStyle]

\* ---------------------------------------------------------- actions

\* The initialisers of aspectRatio, imageStyle and history run.
MountInitialises ==
    /\ mounting.stage = "stored"
    /\ mounting' = [stage |-> "initialised", savedHistory |-> mounting.savedHistory,
                    savedAspectRatio |-> mounting.savedAspectRatio,
                    savedImageStyle |-> mounting.savedImageStyle,
                    aspectRatio |-> InitialAspectRatio(mounting.savedAspectRatio),
                    imageStyle |-> InitialImageStyle(mounting.savedImageStyle),
                    history |-> InitialHistory(mounting.savedHistory)]
    /\ UNCHANGED <<prompt, generatedImageUrl, isLoading, error, aspectRatio, imageStyle,
                   history, referenceImage, pending, calls, deletes, last, storage, routed>>

NextMount == MountInitialises

SpecMount == InitMount /\ [][NextMount]_vars

\* generateImage(config) on its own, answered by the upstream.
RouteSettles ==
    /\ routed.stage = "called"
    /\ \E up \in UpstreamOutcomes(Route(routed.config)) :
          routed' = [stage |-> "settled", config |-> routed.config, up |-> up,
                     result |-> generateImage(routed.config, up)]
    /\ UNCHANGED <<prompt, generatedImageUrl, isLoading, error, aspectRatio, imageStyle,
                   history, referenceImage, pending, calls, deletes, last, storage,
                   mounting>>

NextRoute == RouteSettles

SpecRoute == InitRoute /\ [][NextRoute]_vars

\* ----------------------------------------- the component's handlers

\* finalPrompt and config of handleGenerateImage
BuildConfig(currentPrompt, currentAspectRatio, currentImageStyle, currentRefImage) ==
    [prompt |-> IF currentImageStyle = "default" THEN currentPrompt
                ELSE currentPrompt \o <<", in a ", currentImageStyle, " style">>,
     numberOfImages |-> 1,
     outputMimeType |-> <<"image/jpeg">>,
     aspectRatio |-> currentAspectRatio,
     referenceImage |-> IF currentRefImage # <<>>
                        THEN <<[data |-> currentRefImage[1].data,
                                mimeType |-> currentRefImage[1].mimeType]>>
                        ELSE <<>>]

\* handleGenerateImage up to its await, run with the values it resolved
\* (its options or the form the callback closed over); shown is the
\* displayed image as the handler finds it.
HandleGenerateImage(currentPrompt, currentAspectRatio, currentImageStyle, currentRefImage, shown) ==
    IF Trim(currentPrompt) = <<>>
    THEN /\ error' = << <<"Please enter a prompt to generate an image.">> >>
         /\ generatedImageUrl' = shown
         /\ UNCHANGED <<isLoading, pending, calls>>
    ELSE /\ isLoading' = TRUE
         /\ error' = <<>>
         /\ generatedImageUrl' = <<>>
         /\ pending' = Append(pending,
                 [config |-> BuildConfig(currentPrompt, currentAspectRatio,
                                         currentImageStyle, currentRefImage),
                  currentPrompt |-> currentPrompt,
                  currentAspectRatio |-> currentAspectRatio,
                  currentImageStyle |-> currentImageStyle,
                  currentRefImage |-> currentRefImage])
         /\ calls' = calls + 1

\* The Generate button: disabled={isLoading || !prompt.trim()}
GenerateEnabled == ~isLoading /\ Trim(prompt) # <<>>

ClickGenerate(budget) ==
    /\ GenerateEnabled
    /\ calls < budget
    /\ HandleGenerateImage(prompt, aspectRatio, imageStyle, referenceImage, generatedImageUrl)
    /\ last' = [op |-> "generate"]
    /\ UNCHANGED <<form, history, deletes, storage, routed, mounting>>

\* setReferenceImage of handleViewHistoryImage
ViewedReference(item) ==
    IF item.referenceImageUrl # <<>>
    THEN <<ReferenceFromUrl(item.referenceImageUrl[1])>>
    ELSE <<>>

\* The rows of the history grid the user acts on: the first two and the last.
ClickedRows == {i \in 1..Len(history) : i <= 2 \/ i = Len(history)}

\* A history entry's View button: handleViewHistoryImage(item)
ClickView ==
    \E i \in ClickedRows :
        /\ generatedImageUrl' = <<history[i].imageUrl>>
        /\ prompt' = history[i].prompt
        /\ aspectRatio' = history[i].aspectRatio
        /\ imageStyle' = history[i].imageStyle
        /\ referenceImage' = ViewedReference(history[i])
        /\ last' = [op |-> "view"]
        /\ UNCHANGED <<isLoading, error, history, pending, calls, deletes, storage, routed,
                       mounting>>

\* A history entry's Regen button: handleViewHistoryImage(item), then
\* handleGenerateImage with the entry's prompt, aspect ratio and style; the
\* callback is the one of the render the button belongs to, so the
\* reference image it reads is the form's before the click.
ClickRegen(budget) ==
    \E i \in ClickedRows :
        /\ calls < budget
        /\ prompt' = history[i].prompt
        /\ aspectRatio' = history[i].aspectRatio
        /\ imageStyle' = history[i].imageStyle
        /\ referenceImage' = ViewedReference(history[i])
        /\ HandleGenerateImage(history[i].prompt, history[i].aspectRatio,
                               history[i].imageStyle, referenceImage,
                               <<history[i].imageUrl>>)
        /\ last' = [op |-> "regen"]
        /\ UNCHANGED <<history, deletes, storage, routed, mounting>>

\* A history entry's Delete button: handleDeleteHistoryItem(index), and the
\* history effect of the render that follows; the handler is also run with
\* an index just outside the list.
ClickDelete ==
    \E indexToDelete \in {i - 1 : i \in ClickedRows} \cup {-1, Len(history)} :
        /\ deletes < MaxDeletes
        /\ deletes' = deletes + 1
        /\ history' = DeleteHistoryItem(history, indexToDelete)
        /\ storage' = <<Serialized(history')>>
        /\ last' = [op |-> "delete", indexToDelete |-> indexToDelete]
        /\ UNCHANGED <<form, generatedImageUrl, isLoading, error, pending, calls, routed,
                       mounting>>

\* Mutant: the entry keeps the prompt sent upstream, style suffix included.
NewHistoryItemFinalPrompt(call, imageUrl) ==
    [imageUrl |-> imageUrl,
     prompt |-> call.config.prompt,
     aspectRatio |-> call.currentAspectRatio,
     imageStyle |-> call.currentImageStyle,
     referenceImageUrl |-> IF call.currentRefImage # <<>>
                           THEN <<call.currentRefImage[1].url>> ELSE <<>>]

\* newHistoryItem of handleGenerateImage
NewHistoryItem(call, imageUrl) ==
    [imageUrl |-> imageUrl,
     prompt |-> call.currentPrompt,
     aspectRatio |-> call.currentAspectRatio,
     imageStyle |-> call.currentImageStyle,
     referenceImageUrl |-> IF call.currentRefImage # <<>>
                           THEN <<call.currentRefImage[1].url>> ELSE <<>>]

\* Mutant: setHistory called whatever the outcome.
AnsweredHistoryAlways(prev, call, outcome) ==
    RecordHistory(prev, NewHistoryItem(call, outcome.url))

\* The history after the continuation: setHistory is called in the try
\* block only, after generateImage returned.
AnsweredHistory(prev, call, outcome) ==
    IF ~outcome.threw THEN RecordHistory(prev, NewHistoryItem(call, outcome.url)) ELSE prev

\* The continuation of handleGenerateImage after `await generateImage(config)`:
\* the try, catch and finally blocks, for the call pending[k] and the
\* upstream's answer to it, and the history effect of the render that
\* follows a setHistory.
UpstreamAnswers ==
    \E k \in 1..Len(pending) :
      \E up \in ObservedOutcomes(Route(pending[k].config)) :
        LET call == pending[k]
            result == generateImage(call.config, up)
        IN /\ pending' = SubSeq(pending, 1, k - 1) \o SubSeq(pending, k + 1, Len(pending))
           /\ history' = AnsweredHistory(history, call, result.outcome)
           /\ IF ~result.outcome.threw
              THEN /\ generatedImageUrl' = <<result.outcome.url>>
                   /\ storage' = <<Serialized(history')>>
                   /\ UNCHANGED error
              ELSE /\ error' = <<IF result.outcome.message # <<>>
                                 THEN result.outcome.message
                                 ELSE <<"Failed to generate image. Please try again.">> >>
                   /\ UNCHANGED <<generatedImageUrl, storage>>
           /\ isLoading' = FALSE
           /\ last' = [op |-> "answer", call |-> call, up |-> up]
           /\ UNCHANGED <<form, calls, deletes, routed, mounting>>

\* The prompt textarea: onChange, disabled={isLoading}
TypePrompt ==
    /\ ~isLoading
    /\ \E p \in TypedPrompts : prompt' = p
    /\ last' = [op |-> "edit"]
    /\ UNCHANGED <<generatedImageUrl, isLoading, error, aspectRatio, imageStyle, history,
                   referenceImage, pending, calls, deletes, storage, routed, mounting>>

\* The aspect-ratio select: disabled={isLoading || !!referenceImage}
PickAspectRatio ==
    /\ ~isLoading /\ referenceImage = <<>>
    /\ \E a \in PickedAspectRatios : aspectRatio' = a
    /\ last' = [op |-> "edit"]
    /\ UNCHANGED <<prompt, generatedImageUrl, isLoading, error, imageStyle, history,
                   referenceImage, pending, calls, deletes, storage, routed, mounting>>

\* The style select: disabled={isLoading}
PickStyle ==
    /\ ~isLoading
    /\ \E st \in PickedStyles : imageStyle' = st
    /\ last' = [op |-> "edit"]
    /\ UNCHANGED <<prompt, generatedImageUrl, isLoading, error, aspectRatio, history,
                   referenceImage, pending, calls, deletes, storage, routed, mounting>>

\* The file input (handleFileChange, disabled={isLoading}) and the X button.
ChangeReference ==
    /\ ~isLoading
    /\ \/ \E file \in UploadedFiles : referenceImage' = <<ReferenceFromUrl(file)>>
       \/ referenceImage # <<>> /\ referenceImage' = <<>>
    /\ last' = [op |-> "edit"]
    /\ UNCHANGED <<prompt, generatedImageUrl, isLoading, error, aspectRatio, imageStyle,
                   history, pending, calls, deletes, storage, routed, mounting>>

Next ==
    \/ ClickGenerate(MaxCalls)
    \/ ClickView
    \/ ClickRegen(MaxCalls)
    \/ ClickDelete
    \/ UpstreamAnswers
    \/ TypePrompt
    \/ PickAspectRatio
    \/ PickStyle
    \/ ChangeReference

Spec == Init /\ [][Next]_vars

\* The component over a long saved history, the form left as the history
\* entries set it.
NextHistory ==
    \/ ClickGenerate(MaxHistoryCalls)
    \/ ClickView
    \/ ClickRegen(MaxHistoryCalls)
    \/ ClickDelete
    \/ UpstreamAnswers

SpecHistory == InitHistory /\ [][NextHistory]_vars

\* ------------------------------------------ claims on the component

\* The last handler was the continuation of a call the upstream answered
\* with an image.
Succeeded ==
    /\ last.op = "answer"
    /\ ~generateImage(last.call.config, last.up).outcome.threw

\* The data URL of the image payload the upstream answered the last call with.
AnsweredImage ==
    IF Route(last.call.config) = "generateTextToImage"
    THEN DataUrl(last.up.response.generatedImages[1].image[1].mimeType,
                 last.up.response.generatedImages[1].image[1].imageBytes)
    ELSE DataUrl(last.up.response.candidates[1].parts[1][1].inlineData[1].mimeType,
                 last.up.response.candidates[1].parts[1][1].inlineData[1].data[1])

\* C2 as stated: at most one generateImage call is awaiting its answer.
C2_SingleInFlight == Len(pending) <= 1

\* C3: once a generation has been recorded the history holds at most 20
\* entries, and deletes, views and further records keep it so, whatever
\* list the history was initialised with.
C3_HistoryCapped ==
    [][(Len(history) <= 20 \/ last'.op = "answer") /\ history' # history
         => Len(history') <= 20]_vars

C3_Witness ==
    /\ Succeeded
    /\ Len(history) = 20
    /\ history[1].imageUrl = DataUrl(<<"image/png">>, <<"QUJD">>)
    /\ history[20] = StoredItem(19)

\* C4: after a record exactly one entry holds the recorded result, and it
\* is the first entry.
C4_RecordOnce ==
    Succeeded
    => /\ history # <<>>
       /\ history[1].imageUrl = AnsweredImage
       /\ \A i \in 2..Len(history) : history[i].imageUrl # AnsweredImage

C4_Witness ==
    /\ Succeeded
    /\ AnsweredImage = StoredItem(2).imageUrl
    /\ history[1].referenceImageUrl = <<>>
    /\ Len(history) = 20
    /\ history[2] = StoredItem(1)
    /\ history[3] = StoredItem(3)

\* C5: delete(i) with i in range removes the entry at position i, keeps the
\* others in order and shortens the list by one; out of range it changes
\* nothing.
C5_DeleteAtIndex ==
    [][last'.op = "delete"
         => LET i == last'.indexToDelete
            IN IF i \in 0..(Len(history) - 1)
               THEN /\ Len(history') = Len(history) - 1
                    /\ \A j \in 1..Len(history') :
                          history'[j] = IF j <= i THEN history[j] ELSE history[j + 1]
               ELSE history' = history]_vars

C5_Witness ==
    /\ last.op = "delete"
    /\ last.indexToDelete = 1
    /\ Len(history) = 2
    /\ history[1].imageUrl = DataUrl(<<"image/png">>, <<"QUJD">>)
    /\ history[2] = StoredItem(2)

\* C6: when the upstream answers a submitted request with an image, that
\* image (as a data URL of its mime type and bytes) is displayed and heads
\* the history with the prompt as submitted, without the style suffix sent
\* upstream, and the submitted aspect ratio and style; a request carries
\* the form's prompt, aspect ratio and style as they were at the click.
C6_ResultRecorded ==
    /\ Succeeded
       => /\ generatedImageUrl = <<AnsweredImage>>
          /\ ~isLoading
          /\ history[1].imageUrl = AnsweredImage
          /\ history[1].prompt = last.call.currentPrompt
          /\ history[1].aspectRatio = last.call.currentAspectRatio
          /\ history[1].imageStyle = last.call.currentImageStyle
          /\ last.call.config.prompt =
               IF history[1].imageStyle = "default" THEN history[1].prompt
               ELSE history[1].prompt \o <<", in a ", history[1].imageStyle, " style">>
    /\ (last.op = "generate" /\ pending # <<>>)
       => /\ pending[Len(pending)].currentPrompt = prompt
          /\ pending[Len(pending)].currentAspectRatio = aspectRatio
          /\ pending[Len(pending)].currentImageStyle = imageStyle
          /\ pending[Len(pending)].config.aspectRatio = aspectRatio

C6_Witness ==
    /\ Succeeded
    /\ Route(last.call.config) = "generateTextToImage"
    /\ last.call.config.prompt = <<"a blue bird", " ", ", in a ", "cartoon", " style">>
    /\ last.call.config.aspectRatio = "16:9"
    /\ generatedImageUrl = <<DataUrl(<<"image/png">>, <<"QUJD">>)>>
    /\ history[1].prompt = <<"a blue bird", " ">>
    /\ history[1].aspectRatio = "16:9"
    /\ history[1].imageStyle = "cartoon"
    /\ Len(history) = 3

\* The first n elements of a list (all of them when it is shorter).
FirstN(list, n) == SubSeq(list, 1, IF Len(list) < n THEN Len(list) ELSE n)

\* C14: a record of entry e on list L yields the first 20 elements of e
\* followed by the entries of L whose result differs from e's, in their
\* order; on a full list of 20 a new result evicts only the last entry, and
\* a result the list already holds once removes only that entry.
C14_RecordFirst20 ==
    [][(last'.op = "answer" /\ ~generateImage(last'.call.config, last'.up).outcome.threw)
         => LET e == history'[1]
                Differs(item) == item.imageUrl # e.imageUrl
                same == {j \in 1..Len(history) : history[j].imageUrl = e.imageUrl}
            IN /\ e = NewHistoryItem(last'.call,
                         generateImage(last'.call.config, last'.up).outcome.url)
               /\ history' = FirstN(<<e>> \o SelectSeq(history, Differs), 20)
               /\ (Len(history) = 20 /\ same = {})
                    => history' = <<e>> \o SubSeq(history, 1, 19)
               /\ (Len(history) = 20 /\ Cardinality(same) = 1)
                    => /\ Len(history') = 20
                       /\ \A j \in 1..20 : j \notin same =>
                             history'[IF \E k \in same : k < j THEN j ELSE j + 1]
                               = history[j]]_vars

C14_Witness ==
    /\ Succeeded
    /\ AnsweredImage = StoredItem(2).imageUrl
    /\ Len(history) = 20
    /\ history[20] = StoredItem(20)
    /\ \A j \in 3..20 : history[j] = StoredItem(j)

\* The last handler was the continuation of a call that failed.
Failed ==
    /\ last.op = "answer"
    /\ generateImage(last.call.config, last.up).outcome.threw

\* C15 as stated: when the upstream's answer makes the call fail, the
\* request ends with the loading flag cleared, a non-empty error message
\* displayed and no generated image shown, and with no upstream call made in
\* its place; after any answer the loading flag is false.
C15_FailureTerminal ==
    /\ last.op = "answer" => ~isLoading
    /\ Failed => /\ error # <<>> /\ error[1] # <<>>
                 /\ generatedImageUrl = <<>>
                 /\ Len(pending) < calls

\* C16: a call that fails, whatever the ErrorKind, and a submission stopped
\* by the empty-prompt guard, which makes no upstream call, leave the
\* history and the text persisted under 'history' as they were; the
\* history changes only by a successful answer or a delete.
C16_HistoryUntouched ==
    [][/\ ( \/ last'.op = "answer"
               /\ generateImage(last'.call.config, last'.up).outcome.threw
            \/ last'.op \in {"generate", "regen"} /\ calls' = calls )
          => /\ history' = history
             /\ storage' = storage
             /\ last'.op # "answer" => pending' = pending
       /\ history' # history
          => \/ last'.op = "delete"
             \/ last'.op = "answer"
                /\ ~generateImage(last'.call.config, last'.up).outcome.threw]_vars

C16_Witness ==
    /\ last.op = "regen"
    /\ calls = 0
    /\ pending = <<>>
    /\ error = << <<"Please enter a prompt to generate an image.">> >>
    /\ history = <<BlankPromptItem>>
    /\ storage = <<Serialized(<<BlankPromptItem>>)>>

\* C17 as stated: a Regen that issues a request builds it from the entry:
\* the reference image sent is the entry's (the one the form shows after the
\* click), so the request takes the reference path exactly when the entry
\* has a referenceImageUrl, whatever the form held before the click.
C17_RegenReference ==
    [][(last'.op = "regen" /\ calls' = calls + 1)
         => LET call == pending'[Len(pending')]
            IN /\ call.currentRefImage = referenceImage'
               /\ Route(call.config) = "generateWithReferenceImage"
                    <=> referenceImage' # <<>>]_vars

\* ------------------------------------------------- the ErrorKinds

\* The ErrorKind a failure's message stands for.
ErrorKind(m) ==
    CASE StartsWith(m, "Your prompt was blocked") -> "PromptBlocked"
      [] StartsWith(m, "The generated content was blocked") -> "ContentBlocked"
      [] StartsWith(m, "Image generation failed") -> "GenerationStopped"
      [] StartsWith(m, "Image generation was stopped") -> "GenerationStopped"
      [] StartsWith(m, "No image data was returned") -> "NoImageReturned"
      [] StartsWith(m, "The API response did not contain image data") -> "NoImageReturned"
      [] StartsWith(m, "API Key is invalid or not authorized.") -> "InvalidCredentials"
      [] StartsWith(m, "You have exceeded your API usage quota.") -> "QuotaExceeded"
      [] StartsWith(m, "The image generation service is temporarily unavailable.")
           -> "ServiceUnavailable"
      [] OTHER -> "UnknownFailure"

Settled == routed.stage = "settled"

FailsWith(kind) ==
    routed.result.outcome.threw /\ ErrorKind(routed.result.outcome.message) = kind

Answered == Settled /\ routed.up.kind = "response"

Rejected == Settled /\ routed.up.kind = "throw"

\* The first generated image (text path) or candidate (reference path).
FirstGenerated ==
    IF routed.result.called = "generateTextToImage"
    THEN routed.up.response.generatedImages
    ELSE routed.up.response.candidates

SuccessReason == IF routed.result.called = "generateTextToImage" THEN "SUCCESS" ELSE "STOP"

\* C1: generateImage invokes generateWithReferenceImage exactly when the
\* configuration has a referenceImage, and generateTextToImage exactly when
\* it has none, whatever the prompt, image count, encoding and aspect ratio.
C1_RouteByReference ==
    Settled =>
      /\ routed.config.referenceImage = <<>>
           => /\ routed.result.called = "generateTextToImage"
              /\ routed.result.request.model = "imagen-4.0-generate-001"
      /\ routed.config.referenceImage # <<>>
           => /\ routed.result.called = "generateWithReferenceImage"
              /\ routed.result.request.model = "gemini-2.5-flash-image"

C1_Witness ==
    /\ Settled
    /\ routed.config.referenceImage = <<[data |-> <<>>, mimeType |-> <<>>]>>
    /\ routed.config.numberOfImages = 4
    /\ routed.config.aspectRatio = "16:9"
    /\ routed.result.called = "generateWithReferenceImage"

\* The upstream call was rejected with an Error whose message contains "429".
Rejected429 ==
    /\ Rejected
    /\ routed.up.error.isError
    /\ \E i \in 1..Len(routed.up.error.message[1]) : routed.up.error.message[1][i] = "429"

CredentialWords ==
    {"api key not valid", "403", "permission_denied", "requested entity was not found"}

OwnPrefixes(called) ==
    {"Your prompt was blocked", "The generated content was blocked",
     "No image data was returned"}
      \cup (IF called = "generateTextToImage"
            THEN {"Image generation failed", "The API response did not contain image data"}
            ELSE {"Image generation was stopped"})

\* C7 as stated: every upstream error whose message contains "429" fails
\* with QuotaExceeded, whatever else the message contains.
C7_Original == Rejected429 => FailsWith("QuotaExceeded")

\* C7, amended: an upstream Error whose message contains "429", names no
\* credential failure (in any letter case) and does not begin like one of the
\* path's own errors fails with QuotaExceeded, on either path.
C7_QuotaExceeded ==
    ( /\ Rejected429
      /\ \A i \in 1..Len(routed.up.error.message[1]) :
            ToLowerCase(routed.up.error.message[1][i]) \notin CredentialWords
      /\ routed.up.error.message[1][1] \notin OwnPrefixes(routed.result.called) )
    => /\ FailsWith("QuotaExceeded")
       /\ routed.result.outcome.dispatched = <<>>

C7_Witness ==
    /\ Rejected429
    /\ routed.up.error.message[1] = <<"500", "429">>
    /\ routed.result.called = "generateWithReferenceImage"
    /\ FailsWith("QuotaExceeded")

\* C8: with no block reason, a first image or candidate whose finish reason
\* is "SAFETY" fails with ContentBlocked; any other finish reason that is
\* not the path's success reason fails with GenerationStopped carrying it.
C8_FinishReason ==
    (Answered /\ routed.up.response.blockReason = "" /\ FirstGenerated # <<>>)
    => LET reason == FirstGenerated[1].finishReason
       IN /\ reason = "SAFETY" => FailsWith("ContentBlocked")
          /\ reason \notin {"", "SAFETY", SuccessReason}
               => /\ FailsWith("GenerationStopped")
                  /\ routed.result.outcome.message[3] = reason

C8_Witness ==
    /\ Answered
    /\ routed.result.called = "generateWithReferenceImage"
    /\ routed.up.response.blockReason = ""
    /\ FirstGenerated # <<>>
    /\ FirstGenerated[1].finishReason = "SAFETY"
    /\ FirstGenerated[1].parts # <<>>
    /\ FailsWith("ContentBlocked")

\* The first generated image or candidate ended normally.
EndedNormally == FirstGenerated # <<>> /\ FirstGenerated[1].finishReason \in {"", SuccessReason}

\* The parts of the first candidate (none when content has no parts).
FirstParts == IF FirstGenerated[1].parts = <<>> THEN <<>> ELSE FirstGenerated[1].parts[1]

\* No image bytes in the first generated image / in any part of the first candidate.
LacksImageData ==
    IF routed.result.called = "generateTextToImage"
    THEN \/ FirstGenerated[1].image = <<>>
         \/ FirstGenerated[1].image[1].imageBytes = <<>>
    ELSE \A i \in 1..Len(FirstParts) :
            \/ FirstParts[i].inlineData = <<>>
            \/ FirstParts[i].inlineData[1].data = <<>>

FeedbackTokens ==
    LET rs == routed.up.response.feedbackRatings[1]
    IN UNION {{rs[i].probability, rs[i].category[Len(rs[i].category)]} : i \in 1..Len(rs)}

\* C10: a response with a block reason fails with PromptBlocked carrying
\* the reason and, when present, the safety signals, whatever candidate,
\* finish reason or image the response also holds.
C10_PromptBlocked ==
    (Answered /\ routed.up.response.blockReason # "")
    => /\ FailsWith("PromptBlocked")
       /\ routed.result.outcome.message[3] = routed.up.response.blockReason
       /\ routed.up.response.feedbackRatings # <<>>
            => /\ \A t \in FeedbackTokens : Includes(routed.result.outcome.message, t)
               /\ ~Includes(routed.result.outcome.message, "HARM_CATEGORY_")
               /\ Len(routed.up.response.feedbackRatings[1]) = 2
                    => Includes(routed.result.outcome.message, ", ")

C10_Witness ==
    /\ Answered
    /\ routed.result.called = "generateTextToImage"
    /\ routed.up.response.blockReason = "SAFETY"
    /\ FirstGenerated # <<>>
    /\ FirstGenerated[1].finishReason = "SUCCESS"
    /\ FirstGenerated[1].image # <<>>
    /\ FirstGenerated[1].image[1].imageBytes = <<"QUJD">>
    /\ routed.up.response.feedbackRatings # <<>>
    /\ Len(routed.up.response.feedbackRatings[1]) = 2
    /\ FailsWith("PromptBlocked")

\* The upstream call was rejected with a value whose message names a
\* credential failure, in any letter case.
RejectedCredentials ==
    /\ Rejected
    /\ routed.up.error.message # <<>>
    /\ \E i \in 1..Len(routed.up.error.message[1]) :
          ToLowerCase(routed.up.error.message[1][i]) \in CredentialWords

\* The events the settled call dispatched on the window.
Dispatched == routed.result.outcome.dispatched

\* C11 as stated: every rejection whose message names a credential failure
\* fails with InvalidCredentials and dispatches 'apiKeyError'; the event is
\* dispatched once on an InvalidCredentials failure and on no other outcome.
C11_Original ==
    /\ RejectedCredentials
         => FailsWith("InvalidCredentials") /\ Dispatched = <<"apiKeyError">>
    /\ Settled
         => Dispatched = IF FailsWith("InvalidCredentials") THEN <<"apiKeyError">> ELSE <<>>

\* C11, amended: a rejection with an Error whose message names a credential
\* failure and does not begin like one of the path's own errors fails with
\* InvalidCredentials and dispatches 'apiKeyError'; on either path the event
\* is dispatched once on an InvalidCredentials failure and on no other
\* outcome, success included.
C11_ApiKeyError ==
    /\ ( /\ RejectedCredentials
         /\ routed.up.error.isError
         /\ routed.up.error.message[1][1] \notin OwnPrefixes(routed.result.called) )
       => FailsWith("InvalidCredentials") /\ Dispatched = <<"apiKeyError">>
    /\ Settled
         => Dispatched = IF FailsWith("InvalidCredentials") THEN <<"apiKeyError">> ELSE <<>>

C11_Witness ==
    /\ RejectedCredentials
    /\ routed.up.error.isError
    /\ routed.up.error.message[1] = <<"403">>
    /\ routed.result.called = "generateTextToImage"
    /\ FailsWith("InvalidCredentials")
    /\ Dispatched = <<"apiKeyError">>

\* ------------------------------------------- claims on local storage

\* C12 as stated: whatever text is persisted under 'history', the
\* initialiser yields a list; it yields the empty list when the text is
\* malformed (JSON.parse throws on it) and when nothing is persisted.
C12_InitialList ==
    mounting.stage = "initialised"
    => /\ mounting.history.isArray
       /\ (mounting.savedHistory = <<>> \/ mounting.savedHistory[1].malformed)
            => mounting.history = ArrayValue(<<>>)

\* C13: after every handler, render effects included, the text persisted
\* under 'history' is the serialisation of the whole in-memory list, and
\* the initialiser run on that text (a reload) yields the same entries in
\* the same order.
C13_Persisted ==
    /\ storage = <<Serialized(history)>>
    /\ Len(storage[1].elements) = Len(history)
    /\ InitialHistory(storage) = ArrayValue(history)

C13_Witness ==
    /\ last.op = "delete"
    /\ deletes = 1
    /\ Len(history) = 2
    /\ history[1].imageUrl = DataUrl(<<"image/png">>, <<"QUJD">>)
    /\ history[1].referenceImageUrl = <<DataUrl(<<"image/png">>, <<"UkVG">>)>>
    /\ history[2].referenceImageUrl = <<>>
    /\ InitialHistory(storage).list = history

====
